---- MODULE Spec2Model ----
(***************************************************************************)
(* Model of arduino/timeUtil.cpp: timeInterval(from, to), the elapsed-tick *)
(* computation over a wrapping unsigned tick counter, together with the    *)
(* free-running counter that produces its arguments.                       *)
(*                                                                         *)
(* The source uses a 32-bit unsigned long and the literal 4294967295       *)
(* (= 2^32 - 1).  The model keeps the arithmetic and the wrap-around but   *)
(* scales the width to Width bits, so that every pair of counter values    *)
(* can be enumerated: ULongMod plays 2^32 and MAX_TICK plays 4294967295.   *)
(***************************************************************************)
EXTENDS Integers, Naturals

\* Width in bits of the scaled-down `unsigned long`.
Width == 4

\* Number of wrap-arounds the counter is followed through.
MaxWraps == 2

\* 2^Width: the number of values of `unsigned long` (2^32 in the source).
ULongMod == 2 ^ Width

\* The literal 4294967295 of the wrap branch: the largest `unsigned long`.
MAX_TICK == ULongMod - 1

\* The values of `unsigned long`.
ULong == 0 .. (ULongMod - 1)

\* Conversion of an integer value to `unsigned long` (the return type):
\* reduction modulo 2^Width.  The operand is shifted to be non-negative first.
ToULong(x) == (x + 2 * ULongMod) % ULongMod

\* Mutant: `from < to` instead of `from <= to`.
timeIntervalExpr_strictLess(from, to) ==
  IF from < to THEN to - from ELSE (MAX_TICK - from) + to

\* Mutant: the wrap branch counts the wrapping tick as well.
timeIntervalExpr_plusOne(from, to) ==
  IF from <= to THEN to - from ELSE (MAX_TICK - from) + to + 1

\* Mutant: the comparison is reversed.
timeIntervalExpr_reversed(from, to) ==
  IF from >= to THEN to - from ELSE (MAX_TICK - from) + to

\* The mathematical value of the expression timeInterval returns, before it
\* is converted to the return type.  The literal 4294967295 does not fit a
\* 32-bit long, so the wrap branch is evaluated in a wider type and cannot
\* wrap while it is computed.
timeIntervalExpr(from, to) ==
  IF from <= to THEN to - from ELSE (MAX_TICK - from) + to

\* Mutant: a 2*Width-bit `unsigned long` whose maximum is used in the wrap
\* branch, while the counter still wraps at Width bits.
timeInterval_wide(from, to) ==
  IF from <= to THEN to - from ELSE ((ULongMod * ULongMod - 1) - from) + to

\* unsigned long timeInterval(unsigned long from, unsigned long to)
timeInterval(from, to) == ToULong(timeIntervalExpr(from, to))

\* The single-expression form (to - from) mod 2^Width.
ModularSub(from, to) == (to - from + ULongMod) % ULongMod

VARIABLES
  fromTick,   \* the argument `from`: the counter value at the first reading
  toTick,     \* the argument `to`: the current counter value
  k,          \* number of single ticks taken since the first reading
  wraps,      \* number of those ticks that wrapped the counter to 0
  result      \* the value timeInterval(from, to) returned for the readings

vars == <<fromTick, toTick, k, wraps, result>>

TypeOK ==
  /\ fromTick \in ULong
  /\ toTick \in ULong
  /\ k \in Nat
  /\ wraps \in 0 .. MaxWraps
  /\ result \in Int

\* The first reading: any counter value; no tick has been taken yet, and
\* timeInterval is applied to the pair (from, from).
Init ==
  /\ fromTick \in ULong
  /\ toTick = fromTick
  /\ k = 0
  /\ wraps = 0
  /\ result = timeInterval(fromTick, fromTick)

\* One tick of the free-running counter (adds 1, wraps from 2^Width - 1 to 0)
\* followed by a call of timeInterval on the first and the new reading.
Tick ==
  /\ toTick # ULongMod - 1 \/ wraps < MaxWraps
  /\ toTick' = (toTick + 1) % ULongMod
  /\ k' = k + 1
  /\ wraps' = IF toTick = ULongMod - 1 THEN wraps + 1 ELSE wraps
  /\ result' = timeInterval(fromTick, toTick')
  /\ UNCHANGED fromTick

Next == Tick

Spec == Init /\ [][Next]_vars

\* ---------------------------------------------------------------------------
\* C1: while the counter wrapped at most once during the k ticks from `from`
\* to `to`, timeInterval(from, to) equals k, the true number of elapsed ticks.
C1_Claim == wraps <= 1 => result = k

\* C2: timeInterval(from, to) equals the modular subtraction
\* (to - from) mod 2^Width on every pair of inputs.
C2_Claim == result = ModularSub(fromTick, toTick)

\* C3: for from <= to, timeInterval(from, to) returns exactly to - from.
C3_NoWrapBranch == fromTick <= toTick => result = toTick - fromTick

C3_Witness == fromTick < toTick /\ wraps = 0 /\ result = toTick - fromTick

\* C4: for from > to, timeInterval(from, to) returns exactly
\* (MAX_TICK - from) + to.
C4_WrapBranch == fromTick > toTick => result = (MAX_TICK - fromTick) + toTick

C4_Witness ==
  /\ fromTick > toTick
  /\ toTick > 0
  /\ wraps = 1
  /\ result = (MAX_TICK - fromTick) + toTick

\* C5: in both branches the unbounded-integer value of the returned expression
\* lies in [0, 2^Width - 1], so the conversion to the return type changes
\* nothing: the returned value is that mathematical value.
C5_FitsTickType ==
  /\ timeIntervalExpr(fromTick, toTick) \in ULong
  /\ result = timeIntervalExpr(fromTick, toTick)

C5_Witness == fromTick = toTick + 1 /\ result = ULongMod - 2

\* C6: timeInterval(v, v) = 0 for every v, including 0 and 2^Width - 1.
C6_EqualReadings ==
  /\ fromTick = toTick => result = 0
  /\ \A v \in ULong : timeInterval(v, v) = 0

C6_Witness ==
  /\ fromTick = MAX_TICK
  /\ toTick = MAX_TICK
  /\ wraps = 1
  /\ result = 0

\* C7: whenever the counter wrapped more than once during the k ticks,
\* timeInterval(from, to) is strictly smaller than k.
C7_MultiWrapUndercount == wraps > 1 => result < k

C7_Witness == wraps = 2 /\ fromTick > toTick /\ result < k

\* C8: for a fixed `from`, while `to` advances tick by tick from `from` up to
\* 2^Width - 1 without wrapping, the result starts at 0, always equals
\* to - from, and grows by exactly 1 with every tick.
C8_LinearNoWrap ==
  /\ [](wraps = 0 => (result = toTick - fromTick /\ result = k))
  /\ [][wraps' = 0 => result' = result + 1]_vars

C8_Witness ==
  /\ fromTick = 0
  /\ toTick = MAX_TICK
  /\ wraps = 0
  /\ result = MAX_TICK

C10_RoundTripSum ==
  /\ fromTick # toTick =>
       result + timeInterval(toTick, fromTick) = MAX_TICK
  /\ fromTick = toTick =>
       result + timeInterval(toTick, fromTick) = 0
  /\ result = MAX_TICK => (fromTick = 0 /\ toTick = MAX_TICK)
  /\ fromTick > toTick => result <= MAX_TICK - 1

C10_Witness ==
  /\ fromTick # toTick
  /\ wraps >= 1
  /\ result + timeInterval(toTick, fromTick) = MAX_TICK

====
